---- MODULE Spec2Model ----
(***************************************************************************)
(* Plan / execute / verify / repair orchestration of the travel planner:   *)
(* the langgraph workflow of backend/app/services/agent_service.py, its    *)
(* nodes (backend/app/nodes) and the two entry points of AgentService.     *)
(***************************************************************************)
EXTENDS Integers, Sequences, FiniteSets, TLC

\* ------------------------------------------------------------------------
\* Bounds of the model
\* ------------------------------------------------------------------------
\* number of distinct step ids the Reasoner may use in a plan
NumIds == 3
\* ids a step may name in depends_on are 1..MaxDepId
MaxDepId == 2
\* longest plan the Reasoner returns
MaxPlanLen == 3

\* ------------------------------------------------------------------------
\* Program constants
\* ------------------------------------------------------------------------
RecursionLimit == 20
MaxActivitiesPerDay == 8
MaxLocationsPerDay == 5

\* Optional[T]: None, or a one-element tuple holding the value
None == <<>>
Some(v) == <<v>>

\* {} : the empty dict
EmptyDict == [k \in {} |-> None]

\* d.get(k)
Get(d, k) == IF k \in DOMAIN d THEN d[k] ELSE None

Range(s) == {s[i] : i \in DOMAIN s}

IsPrefix(s, t) == Len(s) <= Len(t) /\ SubSeq(t, 1, Len(s)) = s

\* ------------------------------------------------------------------------
\* Inputs: what the Reasoner (LLM) may answer
\* ------------------------------------------------------------------------
StepIds == 1..NumIds

DepSets == SUBSET (1..MaxDepId)

\* the tools _execute_single_step dispatches; every other name raises
KnownTools == {"weather", "search_flights", "agent"}

\* the names of TOOL_REGISTRY, the catalog the Planner's prompt offers
CatalogTools == {"agent", "weather", "search_flights", "knowledge_base", "hotel_search"}

\* the tool names _generate_repair_tasks gives to its steps
RepairTools ==
    {"budget_optimizer", "schedule_optimizer", "location_optimizer", "weather_adapter",
     "preference_aligner", "date_adjuster", "generic_fixer"}

\* well-formed steps with a tool the executor knows
WellFormedSteps ==
    {[id |-> i, depends_on |-> d, tool |-> "weather", args |-> "dict"] :
        i \in StepIds, d \in DepSets}

\* a step naming a catalog tool the executor does not dispatch, and a step
\* whose args is not a dict (PlanStep.args is typed Any)
FaultySteps ==
    {[id |-> 1, depends_on |-> {}, tool |-> "hotel_search", args |-> "dict"],
     [id |-> 2, depends_on |-> {1}, tool |-> "weather", args |-> "str"]}

StepUniverse == WellFormedSteps \cup FaultySteps

RECURSIVE StepSetsUpTo(_)
StepSetsUpTo(n) ==
    IF n = 0 THEN {{}}
    ELSE LET prev == StepSetsUpTo(n - 1)
         IN prev \cup {T \cup {s} : T \in prev, s \in StepUniverse}

RECURSIVE SeqOf(_)
SeqOf(S) ==
    IF S = {} THEN <<>>
    ELSE LET x == CHOOSE y \in S : TRUE IN <<x>> \o SeqOf(S \ {x})

\* the plans PlannerNode may receive from the structured LLM call
Plans == {SeqOf(S) : S \in StepSetsUpTo(MaxPlanLen)}

\* a plan of d steps in which every step depends on the one before it
Chain(d) ==
    [i \in 1..d |-> [id |-> i, depends_on |-> IF i = 1 THEN {} ELSE {i - 1},
                     tool |-> "weather", args |-> "dict"]]

\* the deepest chain whose Run fits into the recursion limit: intent, planner,
\* one Executor round per step, synthesizer, validator and responder
CeilingDepth == RecursionLimit - 5

\* chains up to one step beyond that depth
ChainPlans == {Chain(d) : d \in {1, 2, CeilingDepth, CeilingDepth + 1}}

\* the ids of planner steps lie below the values uuid4() is modelled by
PlannerIdBound == IF NumIds > CeilingDepth + 1 THEN NumIds ELSE CeilingDepth + 1

Activity(loc) == [name |-> "Activity", description |-> "Sightseeing", location |-> loc]

\* an itinerary no rule of the verifier objects to
ItinOk ==
    [total_cost_usd |-> Some(400),
     days |-> << [activities |-> << Activity(Some("Louvre")) >>] >>]

\* an itinerary with one over-full day
ItinBusy ==
    [total_cost_usd |-> Some(600),
     days |-> << [activities |->
                    [i \in 1..(MaxActivitiesPerDay + 1) |-> Activity(Some("Place"))]] >>]

Itineraries == {ItinOk, ItinBusy}

\* TravelConstraints.dict() as extracted by the Intent stage
ExtractedConstraints ==
    [budget_usd |-> Some(500),
     dates |-> [start |-> "", end |-> ""],
     airports |-> <<>>,
     preferences |-> [family_friendly |-> None, luxury |-> None,
                      budget_friendly |-> None, adventure |-> None,
                      cultural |-> None, relaxation |-> None]]

\* the constraints stored with the plan an edit request names
StoredConstraints ==
    [budget_usd |-> Some(900),
     dates |-> [start |-> "2025-06-01", end |-> "2025-06-07"],
     airports |-> <<"JFK">>,
     preferences |-> [family_friendly |-> None, luxury |-> Some(TRUE),
                      budget_friendly |-> None, adventure |-> None,
                      cultural |-> None, relaxation |-> None]]

\* PlanRequest.plan_id: absent, the id of a stored plan, an id nothing is stored under
PlanIdsOfRequests == {None, Some("p1"), Some("p9")}

\* what the structured LLM call of the Intent stage may extract:
\* TravelConstraints.dict() with each field unset or set
DeltaConstraints ==
    {[budget_usd |-> b,
      dates |-> [start |-> s, end |-> e],
      airports |-> a,
      preferences |-> [family_friendly |-> None, luxury |-> l,
                       budget_friendly |-> None, adventure |-> v,
                       cultural |-> None, relaxation |-> None]] :
        b \in {None, Some(0), Some(500)},
        s \in {"", "2025-07-01"}, e \in {"", "2025-07-09"},
        a \in {<<>>, <<"SFO">>, <<"LGA", "EWR">>},
        l \in {None, Some(TRUE), Some(FALSE)}, v \in {None, Some(TRUE), Some(FALSE)}}

\* the previous constraints a merge may start from: none, the empty dict, a
\* dict with some keys only, and whole TravelConstraints.dict() values
PreviousConstraints ==
    {None,
     EmptyDict,
     [budget_usd |-> Some(500), preferences |-> [luxury |-> Some(TRUE)]],
     StoredConstraints,
     ExtractedConstraints,
     [budget_usd |-> None,
      dates |-> [start |-> "2025-06-01", end |-> ""],
      airports |-> <<"JFK", "BOS">>,
      preferences |-> [family_friendly |-> Some(TRUE), luxury |-> Some(FALSE),
                       budget_friendly |-> None, adventure |-> Some(FALSE),
                       cultural |-> None, relaxation |-> None]]}

\* days for the verifier: activities at the given locations, in order
DayAt(locs) == [activities |-> [i \in DOMAIN locs |-> Activity(locs[i])]]

\* one more activity than the location rule allows, all at one place
SamePlaceDay == DayAt([i \in 1..(MaxLocationsPerDay + 1) |-> Some("Louvre")])
\* one more activity than the location rule allows, each at its own place
SpreadDay == DayAt([i \in 1..(MaxLocationsPerDay + 1) |-> Some("Place " \o ToString(i))])
\* as many places as the rule allows, and an activity without a location
BlankPlaceDay ==
    DayAt([i \in 1..(MaxLocationsPerDay + 1) |->
              IF i = 1 THEN Some("") ELSE Some("Place " \o ToString(i))])
\* a day the weather rule looks at
OutdoorDay ==
    [activities |-> << [name |-> "City Park", description |-> "Outdoor picnic",
                        location |-> Some("Park")] >>]

VerifierDays ==
    {<< DayAt(<< Some("Louvre") >>) >>, << SamePlaceDay >>, << SpreadDay >>,
     << BlankPlaceDay >>, << OutdoorDay >>, << OutdoorDay, SpreadDay >>}

\* the itineraries the verifier is applied to on its own: none, one without
\* days, and itineraries with days and a total cost that is unset or set
VerifierItineraries ==
    {EmptyDict, [total_cost_usd |-> Some(600), days |-> <<>>]}
    \cup {[total_cost_usd |-> t, days |-> d] :
              t \in {None, Some(400), Some(600)}, d \in VerifierDays}

\* the constraints the verifier is applied to, under the keys it reads
VerifierConstraints ==
    {EmptyDict}
    \cup {[budget |-> b, start_date |-> sd] :
              b \in {None, Some(0), Some(500)},
              sd \in {None, Some([iso |-> TRUE, ord |-> 15, text |-> "2025-06-15"])}}

\* datetime.now() at a call of the verifier, as a day number: the trip of
\* VerifierConstraints is more than 10 days away, within 10 days, or past
VerifierNows == {0, 10, 30}

\* violation strings the repair stage may be given: the verifier's own
\* messages and others, some matching the keywords of several repair rules
RepairViolations ==
    {"Total cost exceeds budget of $500",
     "COST too high",
     "Day 1 activities exceed the budget",
     "Day 2 has a time conflict",
     "Day 1 has 9 activities which may cause scheduling conflicts",
     "Day 1 has activities in 6 different locations which may not be feasible",
     "Too many locations",
     "Route is not feasible",
     "Storm in the weather forecast for these dates may exceed limits",
     "Outdoor plan at risk",
     "Hotel is not kid-friendly",
     "No museums included despite user preference for museums",
     "Travel dates exceed the stay",
     "No date available",
     "Invalid date",
     "No itinerary found to validate"}

\* lists of at most two of them, repetitions included
RepairViolationLists ==
    {<<>>} \cup {<< v >> : v \in RepairViolations}
           \cup {<< v, w >> : v \in RepairViolations, w \in RepairViolations}

\* ------------------------------------------------------------------------
\* Strings: str.lower() and the substring test `kw in text`
\* ------------------------------------------------------------------------
UpperToLower ==
    [c \in {"A","B","C","D","E","F","G","H","I","J","K","L","M",
            "N","O","P","Q","R","S","T","U","V","W","X","Y","Z"} |->
        CASE c = "A" -> "a" [] c = "B" -> "b" [] c = "C" -> "c" [] c = "D" -> "d"
          [] c = "E" -> "e" [] c = "F" -> "f" [] c = "G" -> "g" [] c = "H" -> "h"
          [] c = "I" -> "i" [] c = "J" -> "j" [] c = "K" -> "k" [] c = "L" -> "l"
          [] c = "M" -> "m" [] c = "N" -> "n" [] c = "O" -> "o" [] c = "P" -> "p"
          [] c = "Q" -> "q" [] c = "R" -> "r" [] c = "S" -> "s" [] c = "T" -> "t"
          [] c = "U" -> "u" [] c = "V" -> "v" [] c = "W" -> "w" [] c = "X" -> "x"
          [] c = "Y" -> "y" [] c = "Z" -> "z"]

RECURSIVE Lower(_)
Lower(s) ==
    IF Len(s) = 0 THEN ""
    ELSE LET c == SubSeq(s, 1, 1)
         IN (IF c \in DOMAIN UpperToLower THEN UpperToLower[c] ELSE c)
                \o Lower(SubSeq(s, 2, Len(s)))

Contains(text, kw) ==
    \E i \in 1..(Len(text) - Len(kw) + 1) : SubSeq(text, i, i + Len(kw) - 1) = kw

\* truthiness of an Optional number (None and 0 are falsy)
TruthyNum(x) == x # None /\ x[1] # 0
\* truthiness of an Optional string (None and "" are falsy)
TruthyStr(x) == x # None /\ x[1] # ""
\* truthiness of a dict
TruthyDict(d) == DOMAIN d # {}

\* f"${x:.2f}" for a whole amount
Money(x) == "$" \o ToString(x) \o ".00"

RECURSIVE Flatten(_)
Flatten(ss) == IF Len(ss) = 0 THEN <<>> ELSE Head(ss) \o Flatten(Tail(ss))

\* ------------------------------------------------------------------------
\* Intent (nodes/intent.py): merging extracted constraints into previous ones
\* ------------------------------------------------------------------------
\* d[k] = v on a copy of dict d
Put(d, k, v) == [x \in DOMAIN d \cup {k} |-> IF x = k THEN v ELSE d[x]]

\* d.setdefault(k, {}) read as a value
SetDefault(d, k) == IF k \in DOMAIN d THEN d[k] ELSE EmptyDict

\* `if value is not None and value != {} and value != []`
IsSet(value) == value # None

\* else branch of the merge loop: merged_constraints[key] = value
merge_plain_extends(merged, key, value) ==
    IF IsSet(value)
    THEN Put(merged, key, IF key = "airports" /\ key \in DOMAIN merged
                          THEN merged[key] \o value ELSE value)
    ELSE merged

merge_plain(merged, key, value) ==
    IF IsSet(value) THEN Put(merged, key, value) ELSE merged

\* dates branch of the merge loop: start and end are taken when truthy
merge_dates(merged, value) ==
    LET m1 == IF value.start # ""
              THEN Put(merged, "dates", Put(SetDefault(merged, "dates"), "start", value.start))
              ELSE merged
    IN  IF value.end # ""
        THEN Put(m1, "dates", Put(SetDefault(m1, "dates"), "end", value.end))
        ELSE m1

\* preferences branch of the merge loop: every key that is not None is taken
merge_preferences_replaces(merged, value) == Put(merged, "preferences", value)

merge_preferences(merged, value) ==
    LET old == SetDefault(merged, "preferences")
        set == {k \in DOMAIN value : value[k] # None}
    IN  Put(merged, "preferences",
            [k \in DOMAIN old \cup set |-> IF k \in set THEN value[k] ELSE old[k]])

\* the loop of IntentNode.__call__ over extracted_constraints.dict().items(),
\* applied to previous_constraints.copy()
merge(previous, delta) ==
    LET m1 == merge_plain(previous, "budget_usd", delta.budget_usd)
        m2 == merge_dates(m1, delta.dates)
        m3 == merge_plain(m2, "airports", delta.airports)
    IN  merge_preferences(m3, delta.preferences)

\* final_constraints of IntentNode.__call__: merged when previous_constraints
\* is truthy, the extracted constraints alone otherwise
final_constraints(previous_constraints, extracted_constraints) ==
    IF TruthyDict(previous_constraints)
    THEN merge(previous_constraints, extracted_constraints)
    ELSE extracted_constraints

\* previous_constraints after IntentNode.__call__: dict.copy() is shallow, so
\* the nested dicts under "dates" and "preferences" are shared with the merged
\* dict and the item assignments of the loop write into them; the other keys
\* are rebound in the copy only
previous_constraints_after(previous_constraints, extracted_constraints) ==
    IF TruthyDict(previous_constraints)
    THEN LET merged_constraints == merge(previous_constraints, extracted_constraints)
         IN [key \in DOMAIN previous_constraints |->
                IF key \in {"dates", "preferences"}
                THEN merged_constraints[key]
                ELSE previous_constraints[key]]
    ELSE previous_constraints

\* ------------------------------------------------------------------------
\* Verifier (nodes/verifier.py)
\* ------------------------------------------------------------------------
check_budget_constraints(itinerary, constraints) ==
    LET budget == Get(constraints, "budget")
        total_cost == Get(itinerary, "total_cost_usd")
    IN IF TruthyNum(budget) /\ TruthyNum(total_cost) /\ total_cost[1] > budget[1]
       THEN << "Total cost " \o Money(total_cost[1]) \o " exceeds budget of "
                  \o Money(budget[1]) >>
       ELSE <<>>

\* a date string is modelled by [iso |-> parses with fromisoformat, ord |-> day number,
\* text |-> the string]
check_date_constraints(itinerary, constraints) ==
    LET start_date == Get(constraints, "start_date")
        end_date == Get(constraints, "end_date")
        days == Get(itinerary, "days")
    IN IF start_date # None /\ end_date # None /\ Len(days) > 0
          /\ start_date[1].iso /\ end_date[1].iso
          /\ Len(days) > (end_date[1].ord - start_date[1].ord) + 1
       THEN << "Itinerary has " \o ToString(Len(days)) \o " days but only "
                  \o ToString((end_date[1].ord - start_date[1].ord) + 1)
                  \o " days available between " \o start_date[1].text
                  \o " and " \o end_date[1].text >>
       ELSE <<>>

check_activity_conflicts(itinerary) ==
    LET days == Get(itinerary, "days")
    IN Flatten([d \in DOMAIN days |->
            IF Len(days[d].activities) > MaxActivitiesPerDay
            THEN << "Day " \o ToString(d) \o " has "
                       \o ToString(Len(days[d].activities))
                       \o " activities which may cause scheduling conflicts" >>
            ELSE <<>>])

check_location_feasibility(itinerary) ==
    LET days == Get(itinerary, "days")
        locations(d) == SelectSeq(days[d].activities, LAMBDA a : TruthyStr(a.location))
    IN Flatten([d \in DOMAIN days |->
            IF Len(locations(d)) > MaxLocationsPerDay
            THEN << "Day " \o ToString(d) \o " has activities in "
                       \o ToString(Len(locations(d)))
                       \o " different locations which may not be feasible" >>
            ELSE <<>>])

\* the weather rule with a window that is open towards the past
check_weather_appropriateness_past_trips(itinerary, constraints, now) ==
    LET start_date == Get(constraints, "start_date")
        days == Get(itinerary, "days")
        outdoor(d) == SelectSeq(days[d].activities,
                        LAMBDA a : Contains(Lower(a.description), "outdoor")
                                   \/ Contains(Lower(a.name), "park"))
    IN IF start_date # None /\ start_date[1].iso /\ start_date[1].ord - now <= 10
       THEN Flatten([d \in DOMAIN days |->
                IF Len(outdoor(d)) > 0
                THEN << "Day " \o ToString(d)
                           \o " has outdoor activities - verify weather conditions for "
                           \o start_date[1].text >>
                ELSE <<>>])
       ELSE <<>>

check_weather_appropriateness(itinerary, constraints, now) ==
    LET start_date == Get(constraints, "start_date")
        days == Get(itinerary, "days")
        outdoor(d) == SelectSeq(days[d].activities,
                        LAMBDA a : Contains(Lower(a.description), "outdoor")
                                   \/ Contains(Lower(a.name), "park"))
    IN IF start_date # None /\ start_date[1].iso
          /\ 0 <= start_date[1].ord - now /\ start_date[1].ord - now <= 10
       THEN Flatten([d \in DOMAIN days |->
                IF Len(outdoor(d)) > 0
                THEN << "Day " \o ToString(d)
                           \o " has outdoor activities - verify weather conditions for "
                           \o start_date[1].text >>
                ELSE <<>>])
       ELSE <<>>

check_preference_fit(itinerary, constraints) ==
    LET preferences == IF "preferences" \in DOMAIN constraints
                       THEN constraints["preferences"] ELSE EmptyDict
        days == Get(itinerary, "days")
        text(a) == Lower(a.name \o " " \o a.description)
        adult(a) == \E kw \in {"bar", "nightclub", "casino", "adult"} : Contains(text(a), kw)
        museum(a) == Contains(Lower(a.name), "museum") \/ Contains(Lower(a.description), "museum")
        kid == IF Get(preferences, "kid_friendly") = Some(TRUE) /\ Len(days) > 0
               THEN Flatten([d \in DOMAIN days |->
                        IF \E i \in DOMAIN days[d].activities : adult(days[d].activities[i])
                        THEN << "Day " \o ToString(d)
                                   \o " includes activities that may not be kid-friendly" >>
                        ELSE <<>>])
               ELSE <<>>
        mus == IF Get(preferences, "museums") = Some(TRUE) /\ Len(days) > 0
                  /\ ~ \E d \in DOMAIN days : \E i \in DOMAIN days[d].activities :
                          museum(days[d].activities[i])
               THEN << "No museums included despite user preference for museums" >>
               ELSE <<>>
    IN IF ~ TruthyDict(preferences) THEN <<>> ELSE kid \o mus

\* VerifierNode.__call__ without the early return for a missing itinerary
VerifierNode_checks_on(itinerary, constraints, now) ==
    (IF ~ TruthyDict(itinerary) \/ Len(Get(itinerary, "days")) = 0
     THEN << "No itinerary found to validate" >> ELSE <<>>)
    \o check_budget_constraints(itinerary, constraints)
    \o check_date_constraints(itinerary, constraints)
    \o check_activity_conflicts(itinerary)
    \o check_location_feasibility(itinerary)
    \o check_weather_appropriateness(itinerary, constraints, now)
    \o check_preference_fit(itinerary, constraints)

\* VerifierNode.__call__: the violations written into the state
VerifierNode(itinerary, constraints, now) ==
    IF ~ TruthyDict(itinerary) \/ Len(Get(itinerary, "days")) = 0
    THEN << "No itinerary found to validate" >>
    ELSE check_budget_constraints(itinerary, constraints)
         \o check_date_constraints(itinerary, constraints)
         \o check_activity_conflicts(itinerary)
         \o check_location_feasibility(itinerary)
         \o check_weather_appropriateness(itinerary, constraints, now)
         \o check_preference_fit(itinerary, constraints)

\* ------------------------------------------------------------------------
\* Repair (nodes/repair.py)
\* ------------------------------------------------------------------------
\* the keyword tests applied to the violation as written, without lower()
RepairTool_case_sensitive(violation) ==
    LET has(kw) == Contains(violation, kw)
    IN IF has("budget") \/ has("cost") THEN "budget_optimizer"
       ELSE IF has("day") /\ (has("conflict") \/ has("activities")) THEN "schedule_optimizer"
       ELSE IF has("location") \/ has("feasible") THEN "location_optimizer"
       ELSE IF has("weather") \/ has("outdoor") THEN "weather_adapter"
       ELSE IF has("kid-friendly") \/ has("museum") \/ has("preference")
            THEN "preference_aligner"
       ELSE IF has("date") /\ (has("exceed") \/ has("available")) THEN "date_adjuster"
       ELSE "generic_fixer"

\* the tool _generate_repair_tasks picks for one violation
RepairTool(violation) ==
    LET v == Lower(violation)
        has(kw) == Contains(v, kw)
    IN IF has("budget") \/ has("cost") THEN "budget_optimizer"
       ELSE IF has("day") /\ (has("conflict") \/ has("activities")) THEN "schedule_optimizer"
       ELSE IF has("location") \/ has("feasible") THEN "location_optimizer"
       ELSE IF has("weather") \/ has("outdoor") THEN "weather_adapter"
       ELSE IF has("kid-friendly") \/ has("museum") \/ has("preference")
            THEN "preference_aligner"
       ELSE IF has("date") /\ (has("exceed") \/ has("available")) THEN "date_adjuster"
       ELSE "generic_fixer"

\* _generate_repair_tasks numbering its steps from the same id at every call
generate_repair_tasks_reuses_ids(violations, used) ==
    [i \in DOMAIN violations |->
        [id |-> PlannerIdBound + i, depends_on |-> {},
         tool |-> RepairTool(violations[i]), args |-> "dict"]]

\* _generate_repair_tasks: one step per violation; uuid4() is modelled by a
\* counter above every id the planner may use, `used` ids were drawn before
generate_repair_tasks(violations, used) ==
    [i \in DOMAIN violations |->
        [id |-> PlannerIdBound + used + i, depends_on |-> {},
         tool |-> RepairTool(violations[i]), args |-> "dict"]]

\* RepairNode.__call__: the new plan
RepairNode(violations, current_plan, used) ==
    IF Len(violations) = 0 THEN current_plan
    ELSE current_plan \o generate_repair_tasks(violations, used)

\* ------------------------------------------------------------------------
\* Executor (nodes/executor.py)
\* ------------------------------------------------------------------------
\* find_executable_steps with a step counted as completed only when its tool succeeded
find_executable_steps_success_only(p, tcs) ==
    LET completed_step_ids ==
            {tcs[i].id : i \in {j \in DOMAIN tcs :
                                  tcs[j].completed_at # None /\ tcs[j].error = None}}
    IN SelectSeq(p, LAMBDA s : \A dep_id \in s.depends_on : dep_id \in completed_step_ids)

\* _find_executable_steps: the steps whose dependencies all have a completed ToolCall
find_executable_steps(p, tcs) ==
    LET completed_step_ids ==
            {tcs[i].id : i \in {j \in DOMAIN tcs : tcs[j].completed_at # None}}
    IN SelectSeq(p, LAMBDA s : \A dep_id \in s.depends_on : dep_id \in completed_step_ids)

\* _execute_single_step raises ValueError for a tool it does not dispatch
ToolRaises(s) == s.tool \notin KnownTools

\* ToolCall(id=..., tool=..., args=step["args"], ...) validates args: Dict[str, Any]
ToolCallValidates(s) == s.args = "dict"

\* execute_step_with_timing with the except branch leaving the record unstamped
\* and the failed call's result filled in
execute_step_with_timing_unstamped(s) ==
    IF ToolRaises(s)
    THEN [id |-> s.id, tool |-> s.tool, result |-> Some("None"),
          error |-> Some("Unknown tool: " \o s.tool), completed_at |-> None]
    ELSE [id |-> s.id, tool |-> s.tool, result |-> Some("result"),
          error |-> None, completed_at |-> Some("now")]

\* execute_step_with_timing: the record of one step once its task has ended
execute_step_with_timing(s) ==
    IF ToolRaises(s)
    THEN [id |-> s.id, tool |-> s.tool, result |-> None,
          error |-> Some("Unknown tool: " \o s.tool), completed_at |-> Some("now")]
    ELSE [id |-> s.id, tool |-> s.tool, result |-> Some("result"),
          error |-> None, completed_at |-> Some("now")]

\* execute_steps with the tool's exception escaping its task and the gather
execute_steps_unisolated(steps) ==
    IF \E i \in DOMAIN steps : ~ ToolCallValidates(steps[i]) \/ ToolRaises(steps[i])
    THEN [raised |-> TRUE, tool_call_records |-> <<>>]
    ELSE [raised |-> FALSE,
          tool_call_records |-> [i \in DOMAIN steps |-> execute_step_with_timing(steps[i])]]

\* _execute_steps: the ToolCall records of the gathered tasks, in step order;
\* raises when a ToolCall cannot be constructed
execute_steps(steps) ==
    IF \E i \in DOMAIN steps : ~ ToolCallValidates(steps[i])
    THEN [raised |-> TRUE, tool_call_records |-> <<>>]
    ELSE [raised |-> FALSE,
          tool_call_records |-> [i \in DOMAIN steps |-> execute_step_with_timing(steps[i])]]

\* ExecutorNode with the stuck branch returning only messages, the plan left as it is
ExecutorNode_keeps_stuck_plan(p, tcs) ==
    IF Len(p) = 0
    THEN [kind |-> "empty", plan |-> p, tool_calls |-> tcs, executable |-> <<>>]
    ELSE LET executable_steps == find_executable_steps(p, tcs)
             executed == execute_steps(executable_steps)
             executed_step_ids == {executable_steps[i].id : i \in DOMAIN executable_steps}
         IN IF Len(executable_steps) = 0
            THEN [kind |-> "stuck", plan |-> p, tool_calls |-> tcs,
                  executable |-> executable_steps]
            ELSE IF executed.raised
            THEN [kind |-> "handler", plan |-> <<>>, tool_calls |-> <<>>,
                  executable |-> executable_steps]
            ELSE [kind |-> "dispatched",
                  plan |-> SelectSeq(p, LAMBDA s : s.id \notin executed_step_ids),
                  tool_calls |-> tcs \o executed.tool_call_records,
                  executable |-> executable_steps]

\* ExecutorNode.__call__: the state update of one round; kind names the branch taken
ExecutorNode(p, tcs) ==
    IF Len(p) = 0
    THEN [kind |-> "empty", plan |-> p, tool_calls |-> tcs, executable |-> <<>>]
    ELSE LET executable_steps == find_executable_steps(p, tcs)
             executed == execute_steps(executable_steps)
             executed_step_ids == {executable_steps[i].id : i \in DOMAIN executable_steps}
         IN IF Len(executable_steps) = 0
            THEN [kind |-> "stuck", plan |-> <<>>, tool_calls |-> tcs,
                  executable |-> executable_steps]
            ELSE IF executed.raised
            THEN [kind |-> "handler", plan |-> <<>>, tool_calls |-> <<>>,
                  executable |-> executable_steps]
            ELSE [kind |-> "dispatched",
                  plan |-> SelectSeq(p, LAMBDA s : s.id \notin executed_step_ids),
                  tool_calls |-> tcs \o executed.tool_call_records,
                  executable |-> executable_steps]

\* ------------------------------------------------------------------------
\* Workflow edges (services/agent_service.py, create_agent_workflow)
\* ------------------------------------------------------------------------
\* router_decision with the emptiness test off by one
router_decision_off_by_one(p) == IF Len(p) <= 1 THEN "synthesizer" ELSE "executor"

router_decision(p) == IF Len(p) = 0 THEN "synthesizer" ELSE "executor"

\* validator_router sending every Run to the Repair stage
validator_router_always_repairs(vs) == IF Len(vs) < 0 THEN "responder" ELSE "repair"

validator_router(vs) == IF Len(vs) = 0 THEN "responder" ELSE "repair"

\* _convert_tool_calls_to_log
convert_tool_calls_to_log(tcs) ==
    [i \in DOMAIN tcs |->
        [id |-> tcs[i].id, tool |-> tcs[i].tool, result |-> tcs[i].result,
         error |-> tcs[i].error, completed_at |-> tcs[i].completed_at]]

\* ------------------------------------------------------------------------
\* State
\* ------------------------------------------------------------------------
VARIABLES
    mode,         \* entry point of the request: "batch" (create_travel_plan) or "stream"
    pc,           \* position of the service method: "start", "workflow", "returned", "crashed", "hung"
    node,         \* next node of the workflow, "END", or "RAISED" once an exception escaped
    step,         \* supersteps the workflow has executed
    error,        \* the exception that escaped the workflow, or "none"
    constraints,  \* AgentState fields
    plan,
    tool_calls,
    itinerary,
    violations,
    done,
    run,          \* the AgentRun record
    uuids,        \* number of uuid4() values drawn by the Repair stage
    trace,        \* history: the nodes executed so far, in order
    exc,          \* history: position in trace of the first node inside which an exception was raised, 0 if none
    graph,        \* history: the plan as last produced by the Planner or the Repair stage
    rounds,       \* history: per Executor round since graph was produced, the ids it dispatched
    last_round,   \* history: branch, executable steps and log length before the last Executor round
    request,      \* the PlanRequest; plan_id is set on an edit request
    plans_storage,\* the module-level dict of stored plans, by plan id
    call,         \* a node function applied on its own: its arguments and what it returned
    events        \* the chunks the streaming response has yielded so far, in order

vars == <<mode, pc, node, step, error, constraints, plan, tool_calls, itinerary,
          violations, done, run, uuids, trace, exc, graph, rounds, last_round,
          request, plans_storage, call, events>>

state_vars == <<constraints, plan, tool_calls, itinerary, violations, done, uuids>>

Stages == {"intent", "planner", "executor", "synthesizer", "validator", "repair", "responder"}

\* no node function is applied on its own while the workflow runs
NoCall == [op |-> "none"]

\* AgentService.__init__ and the request's entry point; one plan is in storage
ServiceInit ==
    /\ mode \in {"batch", "stream"}
    /\ request \in [plan_id : PlanIdsOfRequests]
    /\ plans_storage = [p \in {"p1"} |-> [constraints |-> StoredConstraints]]
    /\ events = <<>>
    /\ pc = "start"
    /\ node = "intent"
    /\ step = 0
    /\ error = "none"
    /\ constraints = EmptyDict
    /\ plan = <<>>
    /\ tool_calls = <<>>
    /\ itinerary = EmptyDict
    /\ violations = <<>>
    /\ done = FALSE
    /\ run = [status |-> "none", plan_snapshot |-> None, tool_log |-> <<>>]
    /\ uuids = 0
    /\ trace = <<>>
    /\ exc = 0
    /\ graph = <<>>
    /\ rounds = <<>>
    /\ last_round = [kind |-> "none", executable |-> <<>>, before |-> 0]

Init == ServiceInit /\ call = NoCall

\* _initialize_agent: _create_run_record, then _create_initial_state
create_initial_state_constraints(req, storage) ==
    IF req.plan_id # None /\ req.plan_id[1] \in DOMAIN storage
    THEN Get(storage[req.plan_id[1]], "constraints")
    ELSE EmptyDict

\* stream_agent_response: an edit request naming no stored plan is answered
\* with an error chunk before any Run record exists
UnknownPlan == request.plan_id # None /\ request.plan_id[1] \notin DOMAIN plans_storage

StreamRejectsUnknownPlan ==
    /\ mode = "stream" /\ pc = "start" /\ UnknownPlan
    /\ events' = Append(events, [type |-> "error", node |-> "none"])
    /\ pc' = "returned"
    /\ UNCHANGED <<call, request, plans_storage, mode, node, step, error, state_vars, run,
                   trace, exc, graph, rounds, last_round>>

InitializeAgent ==
    /\ pc = "start"
    /\ ~ (mode = "stream" /\ UnknownPlan)
    /\ pc' = "workflow"
    /\ run' = [status |-> "pending", plan_snapshot |-> None, tool_log |-> <<>>]
    /\ constraints' = create_initial_state_constraints(request, plans_storage)
    /\ plan' = <<>>
    /\ tool_calls' = <<>>
    /\ itinerary' = EmptyDict
    /\ violations' = <<>>
    /\ done' = FALSE
    /\ UNCHANGED <<events, call, request, plans_storage, mode, node, step, error, uuids, trace, exc, graph, rounds, last_round>>

\* a node of the compiled graph may run: one superstep of workflow.invoke / astream
Runs(n) == pc = "workflow" /\ node = n /\ step < RecursionLimit

\* bookkeeping of one superstep of node n; raised tells whether an exception
\* was raised inside the node
Superstep(n, raised) ==
    /\ step' = step + 1
    /\ trace' = Append(trace, n)
    /\ exc' = IF raised /\ exc = 0 THEN Len(trace) + 1 ELSE exc

\* the status chunks among the yielded chunks
StatusEvents(evs) == SelectSeq(evs, LAMBDA e : e.type = "status")

\* _stream_workflow, body of the loop over workflow.astream: the event of
\* node n carries the node's output; a status chunk is yielded for it when
\* n differs from current_node, the node of the last status chunk
Yields(n) ==
    events' = IF mode = "stream"
                 /\ (StatusEvents(events) = <<>>
                     \/ StatusEvents(events)[Len(StatusEvents(events))].node # n)
              THEN Append(events, [type |-> "status", node |-> n])
              ELSE events

\* the AgentState dict a node receives
AgentState ==
    [constraints |-> constraints, plan |-> plan, tool_calls |-> tool_calls,
     itinerary |-> itinerary, violations |-> violations, done |-> done]

\* IntentNode.__call__: the structured LLM call returns constraints or raises;
\* previous_constraints is read from the state under the key of that name
IntentExtracts ==
    /\ Runs("intent")
    /\ constraints' = final_constraints(Get(AgentState, "previous_constraints"),
                                        ExtractedConstraints)
    /\ node' = "planner"
    /\ Superstep("intent", FALSE)
    /\ Yields("intent")
    /\ UNCHANGED <<call, request, plans_storage, mode, pc, error, plan, tool_calls, itinerary, violations, done,
                   run, uuids, graph, rounds, last_round>>

IntentCatches ==
    /\ Runs("intent")
    /\ constraints' = constraints
    /\ node' = "planner"
    /\ Superstep("intent", TRUE)
    /\ Yields("intent")
    /\ UNCHANGED <<call, request, plans_storage, mode, pc, error, plan, tool_calls, itinerary, violations, done,
                   run, uuids, graph, rounds, last_round>>

\* PlannerNode.__call__: the steps of the LLM's answer become the plan as they are
PlansOf(answers) ==
    /\ \E p \in answers :
        /\ plan' = p
        /\ graph' = p
        /\ node' = router_decision(p)
    /\ rounds' = <<>>
    /\ Superstep("planner", FALSE)
    /\ Yields("planner")
    /\ UNCHANGED <<call, request, plans_storage, mode, pc, error, constraints, tool_calls, itinerary, violations,
                   done, run, uuids, last_round>>

PlannerPlans ==
    /\ Runs("planner")
    /\ PlansOf(Plans)

\* the same stage when the LLM answers with a chain of dependent steps
PlannerPlansChain ==
    /\ Runs("planner")
    /\ PlansOf(ChainPlans)

\* an exception of node n that no handler of the node catches escapes the workflow
Escapes(n) ==
    /\ node' = "RAISED"
    /\ error' = "StageException"
    /\ Superstep(n, TRUE)
    /\ UNCHANGED <<events, call, request, plans_storage, mode, pc, state_vars, run, graph, rounds, last_round>>

\* PlannerNode.__call__: the structured LLM call raises
PlannerRaises ==
    /\ Runs("planner")
    /\ Escapes("planner")

\* ExecutorNode.__call__ followed by router_decision
ExecutorRound ==
    /\ Runs("executor")
    /\ LET update == ExecutorNode(plan, tool_calls)
       IN /\ plan' = update.plan
          /\ tool_calls' = update.tool_calls
          /\ node' = router_decision(update.plan)
          /\ rounds' = Append(rounds,
                 IF update.kind = "dispatched"
                 THEN {update.executable[i].id : i \in DOMAIN update.executable}
                 ELSE {})
          /\ last_round' = [kind |-> update.kind, executable |-> update.executable,
                            before |-> Len(tool_calls)]
          /\ Superstep("executor", update.kind = "handler")
    /\ Yields("executor")
    /\ UNCHANGED <<call, request, plans_storage, mode, pc, error, constraints, itinerary, violations, done, run,
                   uuids, graph>>

\* ExecutorNode.__call__ when a dispatched tool never responds: the await of
\* _execute_single_step has no timeout, the gather never returns and the
\* node writes nothing
ExecutorHangs ==
    /\ Runs("executor")
    /\ ExecutorNode(plan, tool_calls).kind = "dispatched"
    /\ \E i \in DOMAIN ExecutorNode(plan, tool_calls).executable :
          ExecutorNode(plan, tool_calls).executable[i].tool \in KnownTools
    /\ pc' = "hung"
    /\ UNCHANGED <<events, call, request, plans_storage, mode, node, step, error, state_vars,
                   run, trace, exc, graph, rounds, last_round>>

\* SynthesizerNode.__call__: the itinerary of the LLM's answer replaces the old one
SynthesizerSynthesizes ==
    /\ Runs("synthesizer")
    /\ \E it \in Itineraries : itinerary' = it
    /\ node' = "validator"
    /\ Superstep("synthesizer", FALSE)
    /\ Yields("synthesizer")
    /\ UNCHANGED <<call, request, plans_storage, mode, pc, error, constraints, plan, tool_calls, violations, done,
                   run, uuids, graph, rounds, last_round>>

\* SynthesizerNode.__call__, except branch: only a message is returned
SynthesizerCatches ==
    /\ Runs("synthesizer")
    /\ node' = "validator"
    /\ Superstep("synthesizer", TRUE)
    /\ Yields("synthesizer")
    /\ UNCHANGED <<call, request, plans_storage, mode, pc, error, state_vars, run, graph, rounds, last_round>>

Nows == {0, 5}

\* VerifierNode.__call__ followed by validator_router
Validator ==
    /\ Runs("validator")
    /\ \E now \in Nows :
        /\ violations' = VerifierNode(itinerary, constraints, now)
        /\ node' = validator_router(VerifierNode(itinerary, constraints, now))
    /\ Superstep("validator", FALSE)
    /\ Yields("validator")
    /\ UNCHANGED <<call, request, plans_storage, mode, pc, error, constraints, plan, tool_calls, itinerary, done,
                   run, uuids, graph, rounds, last_round>>

\* RepairNode.__call__ followed by router_decision
Repair ==
    /\ Runs("repair")
    /\ plan' = RepairNode(violations, plan, uuids)
    /\ uuids' = uuids + Len(violations)
    /\ graph' = RepairNode(violations, plan, uuids)
    /\ rounds' = <<>>
    /\ node' = router_decision(RepairNode(violations, plan, uuids))
    /\ Superstep("repair", FALSE)
    /\ Yields("repair")
    /\ UNCHANGED <<call, request, plans_storage, mode, pc, error, constraints, tool_calls, itinerary, violations,
                   done, run, last_round>>

\* ResponderNode.__call__, then the edge to END
Responder ==
    /\ Runs("responder")
    /\ done' = TRUE
    /\ node' = "END"
    /\ Superstep("responder", FALSE)
    /\ Yields("responder")
    /\ UNCHANGED <<call, request, plans_storage, mode, pc, error, constraints, plan, tool_calls, itinerary,
                   violations, run, uuids, graph, rounds, last_round>>

\* ResponderNode.__call__: the LLM call raises
ResponderRaises ==
    /\ Runs("responder")
    /\ Escapes("responder")

\* recursion_limit supersteps are spent and END is not reached: GraphRecursionError
RecursionLimitReached ==
    /\ pc = "workflow"
    /\ node \in Stages
    /\ step = RecursionLimit
    /\ node' = "RAISED"
    /\ error' = "GraphRecursionError"
    /\ UNCHANGED <<events, call, request, plans_storage, mode, pc, step, state_vars, run, trace, exc, graph, rounds, last_round>>

\* _update_run_record
update_run_record(status, snapshot, tool_log) ==
    run' = [status |-> status, plan_snapshot |-> snapshot, tool_log |-> tool_log]

\* plans_storage[plan_id] = {...}: under the request's plan_id, or a new uuid
store_plan ==
    plans_storage' =
        [p \in DOMAIN plans_storage \cup {IF request.plan_id # None THEN request.plan_id[1]
                                          ELSE "new"} |->
            IF p = (IF request.plan_id # None THEN request.plan_id[1] ELSE "new")
            THEN [constraints |-> constraints]
            ELSE plans_storage[p]]

\* create_travel_plan after workflow.invoke returned
BatchReturns ==
    /\ mode = "batch" /\ pc = "workflow" /\ node = "END"
    /\ update_run_record(IF done THEN "completed" ELSE "failed",
                         SetDefault(AgentState, "plan_snapshot"),
                         convert_tool_calls_to_log(tool_calls))
    /\ store_plan
    /\ pc' = "returned"
    /\ UNCHANGED <<events, call, request, mode, node, step, error, state_vars, trace, exc, graph,
                   rounds, last_round>>

\* create_travel_plan has no handler: the exception of workflow.invoke leaves it
BatchCrashes ==
    /\ mode = "batch" /\ pc = "workflow" /\ node = "RAISED"
    /\ pc' = "crashed"
    /\ UNCHANGED <<events, call, request, plans_storage, mode, node, step, error, state_vars, run, trace, exc, graph, rounds,
                   last_round>>

\* stream_agent_response after _stream_workflow is exhausted: _stream_workflow
\* has yielded plan_complete when done and then "[DONE]"; the plan_complete
\* chunk has no plan_data and no tool_calls key
StreamReturns ==
    /\ mode = "stream" /\ pc = "workflow" /\ node = "END"
    /\ update_run_record("completed", EmptyDict, <<>>)
    /\ IF done THEN store_plan ELSE UNCHANGED plans_storage
    /\ events' = (IF done THEN Append(events, [type |-> "plan_complete", node |-> "none"])
                  ELSE events) \o << [type |-> "[DONE]", node |-> "none"] >>
    /\ pc' = "returned"
    /\ UNCHANGED <<call, request, mode, node, step, error, state_vars, trace, exc, graph,
                   rounds, last_round>>

\* stream_agent_response, except branch
StreamCatches ==
    /\ mode = "stream" /\ pc = "workflow" /\ node = "RAISED"
    /\ update_run_record("failed", EmptyDict, <<>>)
    /\ events' = Append(events, [type |-> "error", node |-> "none"])
    /\ pc' = "returned"
    /\ UNCHANGED <<call, request, plans_storage, mode, node, step, error, state_vars, trace, exc,
                   graph, rounds, last_round>>

Next ==
    \/ StreamRejectsUnknownPlan
    \/ InitializeAgent
    \/ IntentExtracts
    \/ IntentCatches
    \/ PlannerPlans
    \/ PlannerRaises
    \/ ExecutorRound
    \/ ExecutorHangs
    \/ SynthesizerSynthesizes
    \/ SynthesizerCatches
    \/ Validator
    \/ Repair
    \/ Responder
    \/ ResponderRaises
    \/ RecursionLimitReached
    \/ BatchReturns
    \/ BatchCrashes
    \/ StreamReturns
    \/ StreamCatches

Spec == Init /\ [][Next]_vars

\* Runs whose plan is a chain; the event loop keeps running the request, so a
\* step that can be taken is taken
ChainNext ==
    \/ StreamRejectsUnknownPlan
    \/ InitializeAgent
    \/ IntentExtracts
    \/ IntentCatches
    \/ PlannerPlansChain
    \/ PlannerRaises
    \/ ExecutorRound
    \/ ExecutorHangs
    \/ SynthesizerSynthesizes
    \/ SynthesizerCatches
    \/ Validator
    \/ Repair
    \/ Responder
    \/ ResponderRaises
    \/ RecursionLimitReached
    \/ BatchReturns
    \/ BatchCrashes
    \/ StreamReturns
    \/ StreamCatches

\* asyncio and the graph runtime keep running whatever is runnable: the service
\* coroutine and every stage that is scheduled take their step (the repair
\* stage is named by its superstep, which only Repair takes)
ChainFairness ==
    /\ WF_vars(~ Runs("repair") /\ ChainNext)
    /\ WF_step(Runs("repair") /\ step' = step + 1)

ChainSpec == Init /\ [][ChainNext]_vars /\ ChainFairness

\* ------------------------------------------------------------------------
\* Node functions applied on their own, outside the workflow
\* ------------------------------------------------------------------------
MergeCalls ==
    {[op |-> "merge", previous |-> p, delta |-> d, returned |-> FALSE, result |-> None,
      stored |-> p] :
        p \in PreviousConstraints, d \in DeltaConstraints}

\* the verifier called twice on one state: clock[k] is datetime.now() at the
\* k-th call, violations the state's list, results what each call returned
VerifyCalls ==
    {[op |-> "verify", itinerary |-> it, constraints |-> c, violations |-> v,
      clock |-> <<n1, n2>>, results |-> <<>>] :
        it \in VerifierItineraries, c \in VerifierConstraints,
        v \in {<<>>, << "Day 1 has 9 activities which may cause scheduling conflicts" >>},
        n1 \in VerifierNows, n2 \in VerifierNows}

\* the repair stage applied to violations, the plan of the state and the
\* number of uuids drawn before
RepairCalls ==
    {[op |-> "repair", violations |-> vs, plan |-> p, used |-> u, returned |-> FALSE,
      result |-> <<>>] :
        vs \in RepairViolationLists,
        p \in {<<>>, << [id |-> 1, depends_on |-> {}, tool |-> "weather", args |-> "dict"] >>},
        u \in {0, 2}}

NodeCalls == MergeCalls \cup VerifyCalls \cup RepairCalls

NodesInit ==
    /\ ServiceInit
    /\ mode = "batch"
    /\ request = [plan_id |-> None]
    /\ call \in NodeCalls

\* the merge of IntentNode.__call__ applied to previous constraints and a delta; stored is
\* the dict object the caller passed, previous its value before the call
ApplyMerge ==
    /\ call.op = "merge" /\ ~ call.returned
    /\ call' = [call EXCEPT !.returned = TRUE,
                            !.result = final_constraints(call.previous, call.delta),
                            !.stored = previous_constraints_after(call.previous, call.delta)]
    /\ UNCHANGED <<events, request, plans_storage, mode, pc, node, step, error, state_vars, run,
                   trace, exc, graph, rounds, last_round>>

\* VerifierNode.__call__ applied to the state; its return value replaces the
\* state's violations
ApplyVerify ==
    /\ call.op = "verify" /\ Len(call.results) < 2
    /\ LET returned == VerifierNode(call.itinerary, call.constraints,
                                    call.clock[Len(call.results) + 1])
       IN  call' = [call EXCEPT !.violations = returned,
                                !.results = Append(call.results, returned)]
    /\ UNCHANGED <<events, request, plans_storage, mode, pc, node, step, error, state_vars, run,
                   trace, exc, graph, rounds, last_round>>

\* RepairNode.__call__ applied to the state: the plan it returns
ApplyRepair ==
    /\ call.op = "repair" /\ ~ call.returned
    /\ call' = [call EXCEPT !.returned = TRUE,
                            !.result = RepairNode(call.violations, call.plan, call.used)]
    /\ UNCHANGED <<events, request, plans_storage, mode, pc, node, step, error, state_vars, run,
                   trace, exc, graph, rounds, last_round>>

NodesNext ==
    \/ ApplyMerge
    \/ ApplyVerify
    \/ ApplyRepair

NodeSpec == NodesInit /\ [][NodesNext]_vars

\* ------------------------------------------------------------------------
\* Properties
\* ------------------------------------------------------------------------
Last(s) == s[Len(s)]

IdsOf(p) == {p[i].id : i \in DOMAIN p}

UniqueIds(p) == \A i, j \in DOMAIN p : i # j => p[i].id # p[j].id

\* every depends_on id is the id of another step of the same plan
DepsResolve(p) ==
    \A i \in DOMAIN p : \A d \in p[i].depends_on :
        \E j \in DOMAIN p : j # i /\ p[j].id = d

\* ids reachable from ids through depends_on in at most n steps
RECURSIVE Ancestors(_, _, _)
Ancestors(p, ids, n) ==
    IF n = 0 THEN ids
    ELSE Ancestors(p, ids \cup UNION {p[i].depends_on : i \in {j \in DOMAIN p : p[j].id \in ids}},
                   n - 1)

Acyclic(p) == \A i \in DOMAIN p : p[i].id \notin Ancestors(p, p[i].depends_on, Len(p))

ValidPlan(p) == UniqueIds(p) /\ DepsResolve(p) /\ Acyclic(p)

ArgumentBags(p) == \A i \in DOMAIN p : p[i].args = "dict"

\* Kahn's algorithm on the plan p: the ids removed before layer k, and layer k
RECURSIVE KahnDone(_, _)
KahnDone(p, k) ==
    IF k = 1 THEN {}
    ELSE LET before == KahnDone(p, k - 1)
         IN before \cup {p[i].id : i \in {j \in DOMAIN p :
                             p[j].id \notin before /\ p[j].depends_on \subseteq before}}

KahnLayer(p, k) == KahnDone(p, k + 1) \ KahnDone(p, k)

ValidatorPasses == Cardinality({i \in DOMAIN trace : trace[i] = "validator"})

C2_InvalidPlanRejected ==
    (trace # <<>> /\ Last(trace) = "planner" /\ ~ ValidPlan(plan)) => node \notin Stages

\* C3: a Run that reaches the ceiling of stage transitions stops after exactly
\* RecursionLimit of them and its Run record ends with status failed, in both
\* entry points.
C3_CeilingEndsRunFailed ==
    (error = "GraphRecursionError" /\ pc \in {"returned", "crashed"}) =>
        (step = RecursionLimit /\ run.status = "failed")

\* C4: an exception raised inside a stage ends the Run: no later stage
\* executes and the Run record ends with status failed.
C4_StageExceptionEndsRun ==
    exc # 0 =>
        /\ Len(trace) = exc
        /\ pc \in {"returned", "crashed"} => run.status = "failed"

\* C5: after a first Validator pass without violations the next stage is the
\* Responder and the Repair stage is never entered in the Run; and the Repair
\* stage is only ever entered from a Validator pass that found a violation.
C5_RepairOnlyAfterViolations ==
    /\ []((ValidatorPasses = 1 /\ violations = <<>>) =>
            (node \in {"responder", "END", "RAISED"} /\ "repair" \notin Range(trace)))
    /\ [][(node # "repair" /\ node' = "repair") =>
            (node = "validator" /\ violations' # <<>>)]_vars

C5_Witness ==
    /\ ValidatorPasses = 1
    /\ violations = <<>>
    /\ Last(trace) = "responder"
    /\ node = "END"

\* C6: whenever the Synthesizer or the Validator is about to run, the plan in
\* the orchestration state is empty.
C6_SynthesisStartsWithEmptyPlan ==
    (pc = "workflow" /\ node \in {"synthesizer", "validator"}) => plan = <<>>

\* the Synthesizer is entered after a Repair stage and the Executor round of its steps
C6_Witness ==
    /\ pc = "workflow" /\ node = "synthesizer"
    /\ Len(trace) >= 2
    /\ trace[Len(trace) - 1] = "repair"
    /\ Last(trace) = "executor"
    /\ last_round.kind = "dispatched"

NoStepReady(p, tcs) ==
    \A i \in DOMAIN p : \E d \in p[i].depends_on :
        \A j \in DOMAIN tcs : tcs[j].id = d => tcs[j].completed_at = None

\* C8: an Executor round that starts with a non-empty plan none of whose steps
\* is ready ends with an empty plan, leaves the ToolCall log as it was and
\* hands the Run to the Synthesizer.
C8_StuckGraphGoesToSynthesis ==
    [][(Runs("executor") /\ plan # <<>> /\ NoStepReady(plan, tool_calls)) =>
          (plan' = <<>> /\ tool_calls' = tool_calls /\ node' = "synthesizer")]_vars

\* a stuck round after a round that executed steps
C8_Witness ==
    /\ last_round.kind = "stuck"
    /\ Last(trace) = "executor"
    /\ node = "synthesizer"
    /\ tool_calls # <<>>

\* C9: the ToolCall log is append-only: in every step of the Run the log
\* before is a prefix of the log after.
C9_LogAppendOnly == [][IsPrefix(tool_calls, tool_calls')]_vars

\* C10: the log holds at most one ToolCall per step id, and no step that has a
\* ToolCall is still in the plan.
C10_AtMostOneAttemptPerStep ==
    /\ \A i, j \in DOMAIN tool_calls : i # j => tool_calls[i].id # tool_calls[j].id
    /\ \A i \in DOMAIN tool_calls : tool_calls[i].id \notin IdsOf(plan)

\* C11: every ToolCall in the log carries a completion timestamp and exactly
\* one of result and error, whether its tool returned or raised.
C11_ToolCallsAreSettled ==
    \A i \in DOMAIN tool_calls :
        /\ tool_calls[i].completed_at # None
        /\ (tool_calls[i].result # None) # (tool_calls[i].error # None)

\* a log holding the record of a tool that returned and of one that raised
C11_Witness ==
    /\ \E i \in DOMAIN tool_calls :
          tool_calls[i].result # None /\ tool_calls[i].tool \in KnownTools
    /\ \E i \in DOMAIN tool_calls :
          tool_calls[i].error # None /\ tool_calls[i].tool \notin KnownTools

\* a field of a constraints dict, read as unset when the dict or the key is absent
BudgetOf(c) == Get(c, "budget_usd")
AirportsOf(c) == IF "airports" \in DOMAIN c THEN c["airports"] ELSE <<>>
DateOf(c, k) ==
    IF "dates" \in DOMAIN c /\ k \in DOMAIN c["dates"] THEN c["dates"][k] ELSE ""
PreferenceOf(c, k) == IF "preferences" \in DOMAIN c THEN Get(c["preferences"], k) ELSE None

PreferenceKeys ==
    {"family_friendly", "luxury", "budget_friendly", "adventure", "cultural", "relaxation"}

Merged == call.op = "merge" /\ call.returned

\* C12: merge never erases: a field the delta leaves null or empty keeps the
\* previous value, a field the delta sets takes the delta's value; previous
\* {budget 500, luxury true} merged with {budget null, luxury null, adventure
\* true} is {budget 500, luxury true, adventure true}.
C12_MergeNeverErases ==
    Merged =>
        LET prev == call.previous
            d == call.delta
            r == call.result
        IN  /\ BudgetOf(r) = IF d.budget_usd = None THEN BudgetOf(prev) ELSE d.budget_usd
            /\ \A k \in {"start", "end"} :
                  DateOf(r, k) = IF d.dates[k] = "" THEN DateOf(prev, k) ELSE d.dates[k]
            /\ AirportsOf(r) = IF d.airports = <<>> THEN AirportsOf(prev) ELSE d.airports
            /\ \A k \in PreferenceKeys :
                  PreferenceOf(r, k) = IF d.preferences[k] = None THEN PreferenceOf(prev, k)
                                       ELSE d.preferences[k]
            /\ (/\ prev = [budget_usd |-> Some(500), preferences |-> [luxury |-> Some(TRUE)]]
                /\ d.budget_usd = None /\ d.dates = [start |-> "", end |-> ""]
                /\ d.airports = <<>>
                /\ d.preferences.luxury = None /\ d.preferences.adventure = Some(TRUE))
               => r = [budget_usd |-> Some(500),
                       preferences |-> [luxury |-> Some(TRUE), adventure |-> Some(TRUE)]]

\* a merge in which the delta leaves set fields of the previous constraints
\* null and sets others
C12_Witness ==
    /\ Merged
    /\ call.previous = StoredConstraints
    /\ call.delta.budget_usd = None /\ call.delta.airports = <<>>
    /\ call.delta.preferences.luxury = None
    /\ call.delta.preferences.adventure = Some(TRUE)
    /\ call.delta.dates.start # ""
    /\ call.result.budget_usd = Some(900)
    /\ call.result.preferences.luxury = Some(TRUE)

\* C14: merge is last-write-wins per field: non-empty airports of the delta
\* become the merged airports exactly, and with no previous constraints the
\* result is the delta unchanged.
C14_MergeLastWriteWins ==
    Merged =>
        /\ call.delta.airports # <<>> => AirportsOf(call.result) = call.delta.airports
        /\ call.previous = None => call.result = call.delta

\* airports of the delta replacing airports of the previous constraints
C14_Witness ==
    /\ Merged
    /\ AirportsOf(call.previous) = <<"JFK", "BOS">>
    /\ call.delta.airports = <<"LGA", "EWR">>
    /\ call.result.airports = <<"LGA", "EWR">>

\* C13: after the Intent stage of an edit request whose plan_id names a
\* stored plan, the constraints in the state are the merge of the stored
\* constraints and the newly extracted delta.
C13_EditMergesStoredConstraints ==
    (/\ trace # <<>> /\ Last(trace) = "intent" /\ exc = 0
     /\ request.plan_id # None /\ request.plan_id[1] \in DOMAIN plans_storage)
    => constraints = merge(plans_storage[request.plan_id[1]].constraints,
                           ExtractedConstraints)

\* the verifier has been applied at least once, to an itinerary with days
Verified == call.op = "verify" /\ Len(call.results) >= 1
HasDays(it) == TruthyDict(it) /\ Len(Get(it, "days")) > 0

\* the violations of a returned list that the budget rule wrote
BudgetViolations(vs) == SelectSeq(vs, LAMBDA v : Contains(v, "exceeds budget"))

\* C15: for an itinerary with days, the verifier returns exactly one budget
\* violation, naming both amounts, when budget and total cost are both set and
\* the total cost is above the budget (600 against 500), and none otherwise
\* (400 against 500).
C15_BudgetRule ==
    (Verified /\ HasDays(call.itinerary)) =>
        LET budget == Get(call.constraints, "budget")
            total_cost == Get(call.itinerary, "total_cost_usd")
            over == budget # None /\ total_cost # None /\ total_cost[1] > budget[1]
            found == BudgetViolations(call.results[1])
        IN  /\ Len(found) = IF over THEN 1 ELSE 0
            /\ over => /\ Contains(found[1], ToString(total_cost[1]))
                       /\ Contains(found[1], ToString(budget[1]))

\* C16: for an itinerary that is absent or has no days the verifier returns
\* the single violation "No itinerary found to validate" whatever the
\* constraints and the earlier violations are, at the second call as at the first.
C16_NoItineraryShortCircuits ==
    (Verified /\ ~ HasDays(call.itinerary)) =>
        /\ \A k \in DOMAIN call.results :
              call.results[k] = << "No itinerary found to validate" >>
        /\ call.violations = << "No itinerary found to validate" >>

\* a second call on an itinerary without days, budget exceeded and violations
\* of an earlier round in the state
C16_Witness ==
    /\ call.op = "verify" /\ Len(call.results) = 2
    /\ call.itinerary = [total_cost_usd |-> Some(600), days |-> <<>>]
    /\ Get(call.constraints, "budget") = Some(500)
    /\ call.violations = << "No itinerary found to validate" >>

\* the distinct non-empty location strings of a day
DistinctLocations(day) ==
    {day.activities[i].location[1] :
        i \in {j \in DOMAIN day.activities : TruthyStr(day.activities[j].location)}}

\* the location rule reported day d in the returned list vs
LocationViolation(vs, d) ==
    \E i \in DOMAIN vs :
        /\ Contains(vs[i], "different locations")
        /\ IsPrefix("Day " \o ToString(d) \o " ", vs[i])

\* C17: the location rule reports a day iff its activities reference more
\* than 5 distinct non-empty location strings.
C17_LocationRuleCountsDistinct ==
    (Verified /\ HasDays(call.itinerary)) =>
        \A d \in DOMAIN call.itinerary.days :
            LocationViolation(call.results[1], d)
                <=> Cardinality(DistinctLocations(call.itinerary.days[d])) > MaxLocationsPerDay

\* the trip start of the constraints is within the weather rule's window at day now
InWeatherWindow(c, now) ==
    LET start_date == Get(c, "start_date")
    IN  start_date # None /\ start_date[1].iso
        /\ 0 <= start_date[1].ord - now /\ start_date[1].ord - now <= 10

VerifiedTwice == call.op = "verify" /\ Len(call.results) = 2

RepairRules ==
    << [tool |-> "budget_optimizer", all |-> {}, any |-> {"budget", "cost"}],
       [tool |-> "schedule_optimizer", all |-> {"day"}, any |-> {"conflict", "activities"}],
       [tool |-> "location_optimizer", all |-> {}, any |-> {"location", "feasible"}],
       [tool |-> "weather_adapter", all |-> {}, any |-> {"weather", "outdoor"}],
       [tool |-> "preference_aligner", all |-> {},
        any |-> {"kid-friendly", "museum", "preference"}],
       [tool |-> "date_adjuster", all |-> {"date"}, any |-> {"exceed", "available"}] >>

RuleMatches(rule, text) ==
    /\ \A kw \in rule.all : Contains(text, kw)
    /\ \E kw \in rule.any : Contains(text, kw)

\* the tool of the first rule that matches the lower-cased violation
ExpectedTool(violation) ==
    LET hits == {k \in DOMAIN RepairRules : RuleMatches(RepairRules[k], Lower(violation))}
    IN  IF hits = {} THEN "generic_fixer"
        ELSE RepairRules[CHOOSE k \in hits : \A h \in hits : k <= h].tool

\* the steps a plan `after` has beyond the plan `before` it extends
Added(before, after) == SubSeq(after, Len(before) + 1, Len(after))

\* C19: a Repair stage appends exactly one step per violation, in violation
\* order and without deduplication; each has no dependencies and an id that
\* differs from the other repair steps' ids and from every step id in the
\* plan or in the ToolCall log.
C19_RepairStepsAreFresh ==
    [][Runs("repair") =>
          LET new == Added(plan, plan')
          IN  /\ IsPrefix(plan, plan')
              /\ Len(new) = Len(violations)
              /\ \A i \in DOMAIN new :
                    /\ new[i].depends_on = {}
                    /\ new[i].tool = ExpectedTool(violations[i])
                    /\ new[i].id \notin IdsOf(plan)
                    /\ \A k \in DOMAIN tool_calls : tool_calls[k].id # new[i].id
                    /\ \A j \in DOMAIN new : i # j => new[i].id # new[j].id]_vars

\* a second Repair stage of a Run, for two violations that map to the same
\* tool, with the first round's repair steps in the log
C19_Witness ==
    /\ trace # <<>> /\ Last(trace) = "repair"
    /\ Len(violations) = 2
    /\ Len(plan) = 2 /\ plan[1].tool = plan[2].tool
    /\ uuids = 4
    /\ \E k \in DOMAIN tool_calls : tool_calls[k].id > NumIds

Repaired == call.op = "repair" /\ call.returned

\* C20: the tool of each repair step is the one of the first rule, in priority
\* order, that the lower-cased violation matches, generic_fixer when none
\* does; ["Total cost exceeds budget of $500"] gives one budget_optimizer step.
C20_RepairToolByPriority ==
    Repaired =>
        LET new == Added(call.plan, call.result)
        IN  /\ Len(new) = Len(call.violations)
            /\ \A i \in DOMAIN new : new[i].tool = ExpectedTool(call.violations[i])
            /\ call.violations = << "Total cost exceeds budget of $500" >>
                  => Len(new) = 1 /\ new[1].tool = "budget_optimizer"

\* violations matching a later rule as well as the one that wins, and one in
\* upper case
C20_Witness ==
    /\ Repaired
    /\ call.violations = << "Day 1 activities exceed the budget", "COST too high" >>
    /\ Len(call.result) = Len(call.plan) + 2
    /\ call.result[Len(call.plan) + 1].tool = "budget_optimizer"
    /\ call.result[Len(call.plan) + 2].tool = "budget_optimizer"

\* C21: in a streaming Run every stage execution is preceded by its own
\* status event: when a stage's output is produced, the status chunk naming
\* that execution of the stage has already been yielded.
C21_StatusPrecedesStage ==
    [][(mode = "stream" /\ Len(trace') = Len(trace) + 1) =>
          /\ Len(StatusEvents(events)) = Len(trace) + 1
          /\ StatusEvents(events)[Len(trace) + 1].node = trace'[Len(trace) + 1]]_vars

\* C22: every streaming response that has ended has the [DONE] sentinel as
\* its last chunk, and no other chunk is a [DONE].
C22_StreamEndsWithDone ==
    (mode = "stream" /\ pc = "returned") =>
        /\ events # <<>>
        /\ \A i \in DOMAIN events : events[i].type = "[DONE]" <=> i = Len(events)

\* C23: once a Run that reached Done has returned, its Run record has status
\* completed, a snapshot holding the final itinerary, and a tool log with one
\* entry per ToolCall of the state, in the same order, in batch and in
\* streaming mode alike.
C23_RunRecordAtDone ==
    (pc = "returned" /\ done) =>
        /\ run.status = "completed"
        /\ Get(run.plan_snapshot, "itinerary") = Some(itinerary)
        /\ run.tool_log = convert_tool_calls_to_log(tool_calls)

\* an Executor round that has been entered and has not completed
RoundPending == node = "executor" /\ pc \in {"workflow", "hung"} /\ step < RecursionLimit

C25_RemovedEqualsDispatched ==
    [][(/\ Len(trace') = Len(trace) + 1
        /\ trace'[Len(trace')] = "executor"
        /\ last_round'.kind # "stuck") =>
            Len(plan) - Len(plan') = Len(tool_calls') - Len(tool_calls)]_vars

\* every string of the list is sent to the given repair tool
RoutedTo(vs, tool) == \A i \in DOMAIN vs : RepairTool(vs[i]) = tool

\* C26: every violation the Verifier emits is routed by the Repair stage to the
\* tool of the rule that emitted it: budget to budget_optimizer, scheduling
\* density to schedule_optimizer, location spread to location_optimizer, weather
\* advisory to weather_adapter, preference fit to preference_aligner and date
\* range to date_adjuster
C26_ViolationsRoutedByCategory ==
    (/\ call.op = "verify" /\ call.results # <<>>
     /\ TruthyDict(call.itinerary) /\ Len(Get(call.itinerary, "days")) > 0) =>
        LET it == call.itinerary
            c == call.constraints
            now == call.clock[Len(call.results)]
        IN /\ RoutedTo(check_budget_constraints(it, c), "budget_optimizer")
           /\ RoutedTo(check_activity_conflicts(it), "schedule_optimizer")
           /\ RoutedTo(check_location_feasibility(it), "location_optimizer")
           /\ RoutedTo(check_weather_appropriateness(it, c, now), "weather_adapter")
           /\ RoutedTo(check_preference_fit(it, c), "preference_aligner")
           /\ RoutedTo(check_date_constraints(it, c), "date_adjuster")

\* the Intent stage left a budget in the state and the itinerary costs more
OverExtractedBudget ==
    /\ TruthyNum(Get(constraints, "budget_usd"))
    /\ Len(Get(itinerary, "days")) >= 1
    /\ TruthyNum(Get(itinerary, "total_cost_usd"))
    /\ Get(itinerary, "total_cost_usd")[1] > Get(constraints, "budget_usd")[1]

\* C27: the Validator enforces the constraints the Intent stage produced: when
\* Intent extracted a budget and the itinerary has a day and costs more than
\* that budget, the Validator's list holds a budget violation and the Run goes
\* to Repair
C27_ExtractedBudgetEnforced ==
    [][(/\ Len(trace') = Len(trace) + 1
        /\ trace'[Len(trace')] = "validator"
        /\ OverExtractedBudget) =>
            /\ \E i \in DOMAIN violations' : Contains(violations'[i], "exceeds budget")
            /\ node' = "repair"]_vars

\* C28: a step whose tool is in the planner's catalog or is a repair tool is
\* dispatched by the Executor: its ToolCall is not an unknown-tool error
C28_CarriedToolsDispatchable ==
    \A i \in DOMAIN tool_calls :
        tool_calls[i].tool \in CatalogTools \cup RepairTools =>
            tool_calls[i].error # Some("Unknown tool: " \o tool_calls[i].tool)

\* the longest dependency path that ends in step s of the acyclic plan p
RECURSIVE PathTo(_, _)
PathTo(p, s) ==
    LET before == {PathTo(p, p[j]) : j \in {k \in DOMAIN p : p[k].id \in s.depends_on}}
    IN IF before = {} THEN 1
       ELSE 1 + (CHOOSE m \in before : \A n \in before : n <= m)

\* the dependency depth of a non-empty acyclic plan
DependencyDepth(p) ==
    LET paths == {PathTo(p, p[i]) : i \in DOMAIN p}
    IN CHOOSE m \in paths : \A n \in paths : n <= m

\* the Planner has just returned its plan to a Run in which nothing was raised
Planned == pc = "workflow" /\ trace = <<"intent", "planner">> /\ exc = 0 /\ plan # <<>>

\* the Run has ended at Done with a completed run record
Completed == pc = "returned" /\ done /\ run.status = "completed"

\* something the clean Run is assumed free of has happened: a tool failed or
\* never answered, a stage raised, or the Validator found a violation
Disturbed ==
    \/ pc = "hung"
    \/ exc # 0
    \/ violations # <<>>
    \/ \E i \in DOMAIN tool_calls : tool_calls[i].error # None

C30_MergeLeavesPreviousUnchanged ==
    (call.op = "merge" /\ call.returned) => call.stored = call.previous

====
